---- MODULE Spec2Model ----
(***************************************************************************)
(* A model of the two utilities of the repository:                         *)
(*   src/gpacalculator.py       transcript term parser, missing-value      *)
(*                              prompt, range aggregator                   *)
(*   src/csv_json_conversion.py JSON <-> CSV converter                     *)
(*                                                                         *)
(* Text of the transcript is a sequence of characters, a character being   *)
(* a one-character string: printable ASCII, tab, line feed, carriage       *)
(* return and form feed; the string "nbsp" stands for the no-break space   *)
(* U+00A0.  A float is an IEEE-754 double, given by its sign, its 53-bit   *)
(* mantissa and its binary exponent, or is an infinity or the NaN; float() *)
(* and += are computed exactly, rounding to nearest with ties to even.     *)
(* An absent value (Python None) is the empty sequence and a present       *)
(* value v the one-element sequence <<v>>.                                 *)
(***************************************************************************)
EXTENDS Integers, Sequences, FiniteSets, TLC

VARIABLES
    \* parse_terms_from_text
    text,            \* the lines of the input consumed by the loop so far
    terms,           \* the ordered dict: a sequence of entries, insertion order
    current_term,    \* None or the key of the current term
    ppc,             \* "loop" while the for loop runs, then "returned"
    \* main of gpacalculator.py
    mpc,             \* "idle", "start", "ask_range", "prompt", "done", "exit"
    parsed_terms,    \* the store as parse_terms_from_text returned it
    chronological_terms,
    start, end,      \* None, or the 0-based bound read from the user
    selected_terms,
    cursor,          \* where prompt_for_missing_in_range waits for input
    user_in,         \* the last response read by the prompt (None: none yet)
    total_gp, total_cr, skipped,
    report,          \* what the last lines of main print
    exit_code,
    \* csv_json_conversion.py
    json_in,         \* the parsed JSON document of the input file
    csv_file,        \* the CSV file: None while absent, else its characters
    csv_before,      \* the CSV file as it was before json_to_csv ran
    json_out,        \* None, or the list csv_to_json dumped
    cpc,             \* "idle", "start", "json_to_csv", "csv_to_json"
    cstatus          \* how the last operation ended

None == <<>>

Some(v) == <<v>>

\* ----------------------------------------------------------------------
\* Characters

UpperChars == <<"A", "B", "C", "D", "E", "F", "G", "H", "I", "J", "K", "L",
        "M", "N", "O", "P", "Q", "R", "S", "T", "U", "V", "W", "X", "Y", "Z">>

LowerChars == <<"a", "b", "c", "d", "e", "f", "g", "h", "i", "j", "k", "l",
        "m", "n", "o", "p", "q", "r", "s", "t", "u", "v", "w", "x", "y", "z">>

\* The case folding of re.IGNORECASE and of float() on these characters.
Lower(c) ==
    IF \E i \in 1..26 : UpperChars[i] = c
    THEN LowerChars[CHOOSE i \in 1..26 : UpperChars[i] = c]
    ELSE c

Nbsp == "nbsp"

\* What \s matches and what str.strip(), float() and int() strip.
White == {" ", "\t", "\n", "\r", "\f", Nbsp}

DigitChars == <<"0", "1", "2", "3", "4", "5", "6", "7", "8", "9">>

Digits == {DigitChars[i] : i \in 1..10}

DigitVal(c) == (CHOOSE i \in 1..10 : DigitChars[i] = c) - 1

\* [IVXLC] under re.IGNORECASE
RomanChars == {"I", "V", "X", "L", "C", "i", "v", "x", "l", "c"}

\* [\d\.,]
NumClass == Digits \cup {".", ","}

Min(S) == CHOOSE x \in S : \A y \in S : x <= y

Max(S) == 0 - Min({0 - x : x \in S})

\* The first position of c in s, or 0.
IndexOf(s, c) ==
    IF \E i \in 1..Len(s) : s[i] = c
    THEN Min({i \in 1..Len(s) : s[i] = c})
    ELSE 0

\* s.strip()
Strip(s) ==
    LET keep == {i \in 1..Len(s) : s[i] \notin White}
    IN  IF keep = {} THEN <<>> ELSE SubSeq(s, Min(keep), Max(keep))

\* s.replace("\xa0", " ")
ReplaceNbsp(s) == [i \in 1..Len(s) |-> IF s[i] = Nbsp THEN " " ELSE s[i]]

\* Line 48.
Clean(raw_line) == Strip(ReplaceNbsp(raw_line))

\* text.splitlines(), which breaks at \n, \r, \r\n and \f.
RECURSIVE SplitLines(_)
SplitLines(cs) ==
    IF cs = <<>> THEN <<>>
    ELSE LET b == Min({q \in 1..(Len(cs) + 1) :
                          q = Len(cs) + 1
                          \/ cs[q] \in {"\n", "\r", "\f"}})
         IN  IF b > Len(cs) THEN <<cs>>
             ELSE LET n == IF cs[b] = "\r" /\ b < Len(cs) /\ cs[b + 1] = "\n"
                           THEN b + 2 ELSE b + 1
                  IN  <<SubSeq(cs, 1, b - 1)>>
                         \o SplitLines(SubSeq(cs, n, Len(cs)))

\* ----------------------------------------------------------------------
\* The regular expressions.  A position is an index into the line; a match
\* is given by the position after its last character, 0 meaning no match.

\* The literal lit matches at position p, letters in either case.
LitAt(line, p, lit) ==
    /\ p + Len(lit) - 1 <= Len(line)
    /\ \A i \in 1..Len(lit) : Lower(line[p + i - 1]) = Lower(lit[i])

\* A greedy run of characters of S from position p: the first position at
\* or after p whose character is not in S.
SkipWhile(line, p, S) ==
    Min({q \in p..(Len(line) + 1) : q = Len(line) + 1 \/ line[q] \notin S})

SeasonWords == << <<"F", "a", "l", "l">>, <<"W", "i", "n", "t", "e",
        "r">>, <<"S", "p", "r", "i", "n", "g">>, <<"S", "u", "m", "m", "e",
        "r">> >>

QtrWords == << <<"Q", "t", "r">>, <<"Q", "u", "a", "r", "t", "e",
        "r">>, <<"S", "e", "s">> >>

\* Sum\s+Ses\s+[IVXLC]+ at position p.
SumSesEnd(line, p) ==
    IF ~LitAt(line, p, <<"S", "u", "m">>) THEN 0
    ELSE LET q1 == SkipWhile(line, p + 3, White)
         IN  IF q1 = p + 3 \/ ~LitAt(line, q1, <<"S", "e", "s">>) THEN 0
             ELSE LET q2 == SkipWhile(line, q1 + 3, White)
                      q3 == SkipWhile(line, q2, RomanChars)
                  IN  IF q2 = q1 + 3 \/ q3 = q2 THEN 0 ELSE q3

\* (?:Fall|Winter|Spring|Summer|Sum\s+Ses\s+[IVXLC]+) at position p.
SeasonEnd(line, p) ==
    LET ws == {i \in 1..Len(SeasonWords) : LitAt(line, p, SeasonWords[i])}
    IN  IF ws # {} THEN p + Len(SeasonWords[Min(ws)])
        ELSE SumSesEnd(line, p)

\* \d{4} at position p.
FourDigitsAt(line, p) ==
    /\ p + 3 <= Len(line)
    /\ \A i \in 0..3 : line[p + i] \in Digits

\* Group 1 of TERM_RE (lines 20-21) at position p: the season, blanks, an
\* optional quarter word, blanks, four digits.
TermMatchAt(line, p) ==
    LET s == SeasonEnd(line, p)
    IN  IF s = 0 THEN 0
        ELSE LET q  == SkipWhile(line, s, White)
                 ws == {i \in 1..Len(QtrWords) : LitAt(line, q, QtrWords[i])}
                 r  == IF ws = {} THEN q
                       ELSE SkipWhile(line, q + Len(QtrWords[Min(ws)]), White)
             IN  IF FourDigitsAt(line, r) THEN r + 4
                 ELSE IF FourDigitsAt(line, q) THEN q + 4
                 ELSE 0

\* re.sub(r"\s+", " ", s)
RECURSIVE CollapseWhite(_)
CollapseWhite(s) ==
    IF s = <<>> THEN <<>>
    ELSE IF Head(s) \in White
    THEN <<" ">> \o CollapseWhite(SubSeq(s, SkipWhile(s, 1, White), Len(s)))
    ELSE <<Head(s)>> \o CollapseWhite(Tail(s))

\* Lines 53-55: TERM_RE.search(line), then group 1 with its blanks
\* collapsed: the label of a header line, None when there is no match.
TERM_RE(line) ==
    LET starts == {p \in 1..Len(line) : TermMatchAt(line, p) # 0}
    IN  IF starts = {} THEN None
        ELSE CollapseWhite(Strip(SubSeq(line, Min(starts),
                                        TermMatchAt(line, Min(starts)) - 1)))

\* Term\s+<w2>\s+<w3>[:\s]*([\d\.,]+) at position p: group 1, or None.
ValueMatchAt(line, p, w2, w3) ==
    IF ~LitAt(line, p, <<"T", "e", "r", "m">>) THEN None
    ELSE LET q1 == SkipWhile(line, p + 4, White)
         IN  IF q1 = p + 4 \/ ~LitAt(line, q1, w2) THEN None
             ELSE LET q2 == SkipWhile(line, q1 + Len(w2), White)
                  IN  IF q2 = q1 + Len(w2) \/ ~LitAt(line, q2, w3) THEN None
                      ELSE LET q3 == SkipWhile(line, q2 + Len(w3),
                                               White \cup {":"})
                               q4 == SkipWhile(line, q3, NumClass)
                           IN  IF q4 = q3 THEN None
                               ELSE SubSeq(line, q3, q4 - 1)

\* search: the leftmost match.
ValueSearch(line, w2, w3) ==
    LET starts == {p \in 1..Len(line) : ValueMatchAt(line, p, w2, w3) # None}
    IN  IF starts = {} THEN None
        ELSE ValueMatchAt(line, Min(starts), w2, w3)

\* Lines 25 and 66.
GP_RE(line) == ValueSearch(line, <<"G", "r", "a", "d", "e">>, <<"P", "o",
        "i", "n", "t", "s">>)

\* Lines 26 and 73.
CR_RE(line) == ValueSearch(line, <<"G", "P", "A">>, <<"C", "r", "e", "d",
        "i", "t", "s">>)

\* ----------------------------------------------------------------------
\* Numbers: int() and float()

RECURSIVE Pow10(_)
Pow10(n) == IF n <= 0 THEN 1 ELSE 10 * Pow10(n - 1)

RECURSIVE IntOf(_)
IntOf(ds) ==
    IF ds = <<>> THEN 0
    ELSE 10 * IntOf(SubSeq(ds, 1, Len(ds) - 1)) + DigitVal(ds[Len(ds)])

\* Digits, with single underscores allowed between two digits.
ValidDigits(ds) ==
    /\ ds # <<>>
    /\ \A i \in 1..Len(ds) :
          \/ ds[i] \in Digits
          \/ /\ ds[i] = "_"
             /\ 1 < i /\ i < Len(ds)
             /\ ds[i - 1] \in Digits /\ ds[i + 1] \in Digits

DigitsOf(ds) == SelectSeq(ds, LAMBDA c : c \in Digits)

SignOf(s) == IF s # <<>> /\ s[1] = "-" THEN 0 - 1 ELSE 1

Unsigned(s) == IF s # <<>> /\ s[1] \in {"+", "-"} THEN Tail(s) ELSE s

\* The digits from the first that is not 0.
Significant(ds) ==
    LET nz == {i \in 1..Len(ds) : ds[i] # "0"}
    IN  IF nz = {} THEN <<>> ELSE SubSeq(ds, Min(nz), Len(ds))

\* A Python int, of any size: its sign and the decimal digits of its
\* magnitude from the first that is not 0, none for 0.
PyLong(neg, ds) == [neg |-> neg /\ ds # <<>>, ds |-> ds]

\* sys.get_int_max_str_digits()
MaxStrDigits == 4300

\* int(s): blanks stripped, an optional sign, digits; None for ValueError,
\* which a numeral of more than 4300 digits raises too.
PyInt(s) ==
    LET t    == Strip(s)
        body == Unsigned(t)
    IN  IF Len(DigitsOf(body)) <= MaxStrDigits /\ ValidDigits(body)
        THEN Some(PyLong(SignOf(t) < 0, Significant(DigitsOf(body))))
        ELSE None

\* i - 1 on ints.  Below 1 the magnitude grows: the digit after the last
\* that is not 9 goes up and the 9s after it become 0.  From 1 up it
\* shrinks: the last digit that is not 0 goes down and the 0s after it
\* become 9.
MinusOne(i) ==
    IF i.neg \/ i.ds = <<>>
    THEN LET j == Max({0} \cup {k \in 1..Len(i.ds) : i.ds[k] # "9"})
         IN  PyLong(TRUE,
                    (IF j = 0 THEN <<"1">> ELSE <<>>)
                       \o [k \in 1..Len(i.ds) |->
                              IF k < j THEN i.ds[k]
                              ELSE IF k = j
                              THEN DigitChars[DigitVal(i.ds[k]) + 2]
                              ELSE "0"])
    ELSE LET j == Max({k \in 1..Len(i.ds) : i.ds[k] # "0"})
         IN  PyLong(FALSE,
                    Significant([k \in 1..Len(i.ds) |->
                                    IF k < j THEN i.ds[k]
                                    ELSE IF k = j
                                    THEN DigitChars[DigitVal(i.ds[k])]
                                    ELSE "9"]))

\* a < b on ints.
IntLess(a, b) ==
    LET less(x, y) ==
           \/ Len(x) < Len(y)
           \/ /\ Len(x) = Len(y)
              /\ \E k \in 1..Len(x) :
                    /\ DigitVal(x[k]) < DigitVal(y[k])
                    /\ \A j \in 1..(k - 1) : x[j] = y[j]
    IN  IF a.neg # b.neg THEN a.neg
        ELSE IF a.neg THEN less(b.ds, a.ds)
        ELSE less(a.ds, b.ds)

\* ----------------------------------------------------------------------
\* Whole numbers of any size, as limbs of twenty binary digits, lowest
\* first.

LimbBits == 20

RECURSIVE Pow2(_)
Pow2(n) == IF n <= 0 THEN 1 ELSE 2 * Pow2(n - 1)

RECURSIVE Pow5(_)
Pow5(n) == IF n <= 0 THEN 1 ELSE 5 * Pow5(n - 1)

LimbBase == Pow2(LimbBits)

Limb(a, i) == IF 1 <= i /\ i <= Len(a) THEN a[i] ELSE 0

\* Limbs lo..hi of a * k + carry for k <= 1000, and the carry out.
RECURSIVE MulRange(_, _, _, _, _)
MulRange(a, k, lo, hi, carry) ==
    IF lo > hi THEN [limbs |-> <<>>, carry |-> carry]
    ELSE IF lo = hi
    THEN [limbs |-> <<(a[lo] * k + carry) % LimbBase>>,
          carry |-> (a[lo] * k + carry) \div LimbBase]
    ELSE \* the low half, then the high half with the low half's carry
         CHOOSE r \in
           {[limbs |-> low.limbs \o high.limbs, carry |-> high.carry] :
              <<low, high>> \in
                 UNION {{<<l, h>> :
                           h \in {MulRange(a, k, ((lo + hi) \div 2) + 1, hi,
                                           l.carry)}} :
                        l \in {MulRange(a, k, lo, (lo + hi) \div 2, carry)}}}
           : TRUE

\* a * k + c
MulSmall(a, k, c) ==
    CHOOSE p \in {IF r.carry = 0 THEN r.limbs ELSE Append(r.limbs, r.carry) :
                    r \in {MulRange(a, k, 1, Len(a), c)}} : TRUE

\* Limbs lo..hi of the quotient of a by d <= 1000, with rem carried in
\* from the limbs above hi, and the remainder.
RECURSIVE DivRange(_, _, _, _, _)
DivRange(a, d, lo, hi, rem) ==
    IF lo > hi THEN [limbs |-> <<>>, rem |-> rem]
    ELSE IF lo = hi
    THEN [limbs |-> <<(rem * LimbBase + a[lo]) \div d>>,
          rem |-> (rem * LimbBase + a[lo]) % d]
    ELSE CHOOSE r \in
           {[limbs |-> low.limbs \o high.limbs, rem |-> low.rem] :
              <<low, high>> \in
                 UNION {{<<l, h>> :
                           l \in {DivRange(a, d, lo, (lo + hi) \div 2,
                                           h.rem)}} :
                        h \in {DivRange(a, d, ((lo + hi) \div 2) + 1, hi,
                                        rem)}}}
           : TRUE

\* a * 5^k
RECURSIVE TimesPow5(_, _)
TimesPow5(a, k) ==
    IF k <= 4 THEN MulSmall(a, Pow5(k), 0)
    ELSE CHOOSE p \in {TimesPow5(half, k - (k \div 2)) :
                         half \in {TimesPow5(a, k \div 2)}} : TRUE

\* n = [limbs, lower] divided by 5^k: the quotient, and whether the exact
\* value has digits below it.
RECURSIVE OverPow5(_, _)
OverPow5(n, k) ==
    IF k <= 4
    THEN CHOOSE q \in {[limbs |-> r.limbs, lower |-> n.lower \/ r.rem # 0] :
                         r \in {DivRange(n.limbs, Pow5(k), 1, Len(n.limbs),
                                         0)}} : TRUE
    ELSE CHOOSE q \in {OverPow5(half, k - (k \div 2)) :
                         half \in {OverPow5(n, k \div 2)}} : TRUE

\* The number written by the decimal digits ds after those of a.
RECURSIVE DigitsInto(_, _)
DigitsInto(a, ds) ==
    IF Len(ds) <= 3 THEN MulSmall(a, Pow10(Len(ds)), IntOf(ds))
    ELSE CHOOSE p \in {DigitsInto(first, SubSeq(ds, (Len(ds) \div 2) + 1,
                                                Len(ds))) :
                         first \in {DigitsInto(a, SubSeq(ds, 1,
                                                         Len(ds) \div 2))}}
           : TRUE

\* The number of binary digits of a.
Length(a) ==
    IF \A i \in 1..Len(a) : a[i] = 0 THEN 0
    ELSE CHOOSE len \in
           {LimbBits * (top - 1)
               + Min({n \in 1..LimbBits : a[top] < Pow2(n)}) :
              top \in {Max({i \in 1..Len(a) : a[i] # 0})}} : TRUE

\* The binary digit of a of weight 2^n, and whether a digit below it is set.
BitAt(a, n) == (Limb(a, (n \div LimbBits) + 1) \div Pow2(n % LimbBits)) % 2

AnyBelow(a, n) ==
    \E i \in 1..Len(a) :
       \/ i <= n \div LimbBits /\ a[i] # 0
       \/ i = (n \div LimbBits) + 1 /\ a[i] % Pow2(n % LimbBits) # 0

\* The low len limbs of a * 2^n and of a \div 2^n.
ShiftLeft(a, n, len) ==
    [i \in 1..len |->
        (Limb(a, i - (n \div LimbBits)) % Pow2(LimbBits - (n % LimbBits)))
              * Pow2(n % LimbBits)
           + Limb(a, i - (n \div LimbBits) - 1)
                \div Pow2(LimbBits - (n % LimbBits))]

ShiftRight(a, n, len) ==
    [i \in 1..len |->
        Limb(a, i + (n \div LimbBits)) \div Pow2(n % LimbBits)
           + (Limb(a, i + (n \div LimbBits) + 1) % Pow2(n % LimbBits))
                * Pow2(LimbBits - (n % LimbBits))]

\* Limbs i.. of a + b with a carry in, and of a - b (a >= b) with a
\* borrow in, as many as a has.
RECURSIVE AddFrom(_, _, _, _)
AddFrom(a, b, i, carry) ==
    IF i > Len(a) THEN <<>>
    ELSE <<(a[i] + Limb(b, i) + carry) % LimbBase>>
            \o AddFrom(a, b, i + 1, (a[i] + Limb(b, i) + carry) \div LimbBase)

RECURSIVE SubFrom(_, _, _, _)
SubFrom(a, b, i, borrow) ==
    IF i > Len(a) THEN <<>>
    ELSE <<(a[i] - Limb(b, i) - borrow + LimbBase) % LimbBase>>
            \o SubFrom(a, b, i + 1,
                       IF a[i] - Limb(b, i) - borrow < 0 THEN 1 ELSE 0)

\* a < b, for as many limbs each.
LimbsLess(a, b) ==
    \E i \in 1..Len(a) :
       /\ a[i] < b[i]
       /\ \A j \in (i + 1)..Len(a) : a[j] = b[j]

\* ----------------------------------------------------------------------
\* Floats.  A float is an IEEE-754 double: a finite one is
\* (-1)^neg * man * 2^exp with man below 2^53 in three limbs; a normal one
\* has man >= 2^52, a subnormal one exp = -1074, a zero exp = 0.  An
\* infinity has a sign only, and there is one NaN.

MantissaBits == 53

MinExp == 0 - 1074

MaxExp == 971

ZeroMan == <<0, 0, 0>>

Double(neg, man, exp) == [k |-> "num", neg |-> neg, man |-> man, exp |-> exp]

Zero(neg) == Double(neg, ZeroMan, 0)

Inf(neg) == [k |-> "inf", neg |-> neg, man |-> ZeroMan, exp |-> 0]

NaN == [k |-> "nan", neg |-> FALSE, man |-> ZeroMan, exp |-> 0]

\* The double of man * 2^exp once man is cut to 53 digits: a carry out of
\* the 53 digits moves up one exponent, and past the largest exponent the
\* value is an infinity.
Finite(neg, man, exp) ==
    IF man = ZeroMan THEN Zero(neg)
    ELSE IF man[3] >= Pow2(MantissaBits - 2 * LimbBits)
    THEN (IF exp + 1 > MaxExp THEN Inf(neg)
          ELSE Double(neg, ShiftRight(man, 1, 3), exp + 1))
    ELSE IF exp > MaxExp THEN Inf(neg)
    ELSE Double(neg, man, exp)

\* The double nearest to a * 2^x, ties to the even mantissa; lower tells
\* whether the exact value has digits below those of a.  n is the number
\* of low digits of a the double has no room for.
Round(neg, a, x, lower) ==
    IF \A i \in 1..Len(a) : a[i] = 0 THEN Zero(neg)
    ELSE CHOOSE d \in
           {IF n <= 0 THEN Finite(neg, ShiftLeft(a, 0 - n, 3), x + n)
            ELSE Finite(neg,
                        AddFrom(ShiftRight(a, n, 3),
                                IF /\ BitAt(a, n - 1) = 1
                                   /\ \/ lower
                                      \/ AnyBelow(a, n - 1)
                                      \/ BitAt(a, n) = 1
                                THEN <<1>> ELSE <<>>,
                                1, 0),
                        x + n) :
              n \in {Max({Length(a) - MantissaBits, MinExp - x})}} : TRUE

\* The double nearest to the number written by the digits ds, the first
\* not 0, times 10^e.  Past 10^310 it is an infinity and below 10^-324 a
\* zero; else the digits are multiplied by 5^e and carry the exponent e,
\* or divided by 5^-e after enough binary digits are put below them for
\* the quotient to have more than 53.
Decimal(neg, ds, e) ==
    IF ds = <<>> THEN Zero(neg)
    ELSE IF Len(ds) + e > 310 THEN Inf(neg)
    ELSE IF Len(ds) + e < 0 - 324 THEN Zero(neg)
    ELSE IF e >= 0
    THEN Round(neg, TimesPow5(DigitsInto(<<>>, ds), e), e, FALSE)
    ELSE CHOOSE d \in
           {Round(neg, q.limbs, e - LimbBits * below, q.lower) :
              <<below, q>> \in
                 UNION {{<<b, quot>> :
                           quot \in {OverPow5(
                              [limbs |-> [i \in 1..b |-> 0]
                                            \o DigitsInto(<<>>, ds),
                               lower |-> FALSE], 0 - e)}} :
                        b \in {((3 * (0 - e) + 64) \div LimbBits) + 1}}}
           : TRUE

\* float(s): blanks stripped, an optional sign, then inf, infinity or nan
\* in any case, or digits with an optional point and an optional
\* exponent; None for ValueError.  An exponent of more than nine digits
\* is out of every float's range, whatever the mantissa.
Float(s) ==
    LET t     == Strip(s)
        body  == [i \in 1..Len(Unsigned(t)) |-> Lower(Unsigned(t)[i])]
        ePos  == IndexOf(body, "e")
        mant  == IF ePos = 0 THEN body ELSE SubSeq(body, 1, ePos - 1)
        expo  == IF ePos = 0 THEN <<>> ELSE SubSeq(body, ePos + 1, Len(body))
        dot   == IndexOf(mant, ".")
        whole == IF dot = 0 THEN mant ELSE SubSeq(mant, 1, dot - 1)
        frac  == IF dot = 0 THEN <<>> ELSE SubSeq(mant, dot + 1, Len(mant))
        ok    == /\ whole = <<>> \/ ValidDigits(whole)
                 /\ frac = <<>> \/ ValidDigits(frac)
                 /\ whole # <<>> \/ frac # <<>>
                 /\ ePos = 0 \/ ValidDigits(Unsigned(expo))
        xs    == Significant(DigitsOf(Unsigned(expo)))
        x     == IF ePos = 0 THEN 0
                 ELSE SignOf(expo)
                         * (IF Len(xs) > 9 THEN 1000000000 ELSE IntOf(xs))
    IN  IF body \in {<<"i", "n", "f">>, <<"i", "n", "f", "i", "n", "i", "t",
            "y">>} THEN Some(Inf(SignOf(t) < 0))
        ELSE IF body = <<"n", "a", "n">> THEN Some(NaN)
        ELSE IF ok
        THEN Some(Decimal(SignOf(t) < 0,
                          Significant(DigitsOf(whole \o frac)),
                          x - Len(DigitsOf(frac))))
        ELSE None

\* capture.replace(",", "")
RemoveCommas(s) == SelectSeq(s, LAMBDA c : c # ",")

\* ----------------------------------------------------------------------
\* Float addition (total += value)

\* a + b.  Two finite values whose lowest digits are more than 64 places
\* apart add up to the larger; else both are written at the lower
\* exponent, in seven limbs, and the exact sum or difference is rounded.
\* Equal values of opposite sign give +0.0, and -0.0 comes only of two
\* -0.0.
Plus(a, b) ==
    IF a.k = "nan" \/ b.k = "nan" THEN NaN
    ELSE IF a.k = "inf"
    THEN (IF b.k = "inf" /\ b.neg # a.neg THEN NaN ELSE a)
    ELSE IF b.k = "inf" THEN b
    ELSE IF a.man = ZeroMan
    THEN (IF b.man = ZeroMan THEN Zero(a.neg /\ b.neg) ELSE b)
    ELSE IF b.man = ZeroMan THEN a
    ELSE IF a.exp - b.exp > 64 THEN a
    ELSE IF b.exp - a.exp > 64 THEN b
    ELSE CHOOSE sum \in
           {IF a.neg = b.neg
            THEN Round(a.neg, AddFrom(am, bm, 1, 0), a.exp - up, FALSE)
            ELSE IF am = bm THEN Zero(FALSE)
            ELSE IF LimbsLess(am, bm)
            THEN Round(b.neg, SubFrom(bm, am, 1, 0), a.exp - up, FALSE)
            ELSE Round(a.neg, SubFrom(am, bm, 1, 0), a.exp - up, FALSE) :
              <<up, am, bm>> \in
                 {<<u, ShiftLeft(a.man, u, 7),
                    ShiftLeft(b.man, u + b.exp - a.exp, 7)>> :
                    u \in {IF a.exp > b.exp THEN a.exp - b.exp ELSE 0}}}
           : TRUE

\* The ops added in order to 0.0.
RECURSIVE FloatSum(_)
FloatSum(ops) ==
    IF ops = <<>> THEN Zero(FALSE)
    ELSE Plus(FloatSum(SubSeq(ops, 1, Len(ops) - 1)), ops[Len(ops)])

\* total == 0 on floats: both zeros are, an infinity and the NaN are not.
IsZero(total) == total.k = "num" /\ total.man = ZeroMan

\* ----------------------------------------------------------------------
\* The term store: a Python dict, as the sequence of its entries in
\* insertion order.

RECURSIVE DecimalChars(_)
DecimalChars(n) ==
    IF n < 10 THEN <<DigitChars[n + 1]>>
    ELSE Append(DecimalChars(n \div 10), DigitChars[(n % 10) + 1])

\* Lines 56-60: the candidate key for a label at a given suffix.
Key(base, suffix) ==
    IF suffix = 1 THEN base
    ELSE base \o <<" ", "(">> \o DecimalChars(suffix) \o <<")">>

DictIndex(d, name) == CHOOSE i \in 1..Len(d) : d[i].name = name

Has(d, name) == \E i \in 1..Len(d) : d[i].name = name

\* d[name] = entry: a present key keeps its place, a new key goes last.
DictSet(d, name, entry) ==
    IF Has(d, name) THEN [d EXCEPT ![DictIndex(d, name)] = entry]
    ELSE Append(d, entry)

\* Line 61.
NewEntry(name) ==
    [name |-> name, grade_points |-> None, credits |-> None, raw_lines |-> <<>>]

\* Lines 57-60: the first suffix whose key is not in the store.
Disambiguate(d, base) ==
    Key(base, Min({s \in 1..(Len(d) + 1) : ~Has(d, Key(base, s))}))

NoDisambiguate(d, base) == base

UniqueName(d, base) == Disambiguate(d, base)

\* ----------------------------------------------------------------------
\* parse_terms_from_text: the body of the for loop, on the loop state
\* st = [terms, current_term]

\* Lines 68-71 and 75-79: the field after a search gave the capture.
ParsedField(old, capture) ==
    IF capture = None THEN old
    ELSE LET f == Float(Strip(RemoveCommas(capture)))
         IN  IF f = None THEN old ELSE f

FirstWinsField(old, capture) ==
    IF old # None THEN old ELSE ParsedField(old, capture)

\* Lines 66-71 and 73-79: a matched, parseable value overwrites the field.
SetField(old, capture) == ParsedField(old, capture)

\* Lines 65-81, for the entry of the current term.
ReadValues(entry, line) ==
    [entry EXCEPT !.grade_points = SetField(@, GP_RE(line)),
                  !.credits      = SetField(@, CR_RE(line)),
                  !.raw_lines    = Append(@, line)]

\* Lines 54-63.
OpenTerm(st, label) ==
    LET term_name == UniqueName(st.terms, label)
    IN  [terms        |-> DictSet(st.terms, term_name, NewEntry(term_name)),
         current_term |-> Some(term_name)]

OpenTermAndRead(st, line) ==
    LET o == OpenTerm(st, TERM_RE(line))
        i == DictIndex(o.terms, o.current_term[1])
    IN  [o EXCEPT !.terms[i] = ReadValues(@, line)]

HeaderLine(st, line) == OpenTerm(st, TERM_RE(line))

ValueLine(st, line) ==
    IF st.current_term = None THEN st
    ELSE LET i == DictIndex(st.terms, st.current_term[1])
         IN  [st EXCEPT !.terms[i] = ReadValues(@, line)]

\* Lines 45-81.
LoopBody(st, raw_line) ==
    IF raw_line = <<>> THEN st
    ELSE LET line == Clean(raw_line)
         IN  IF TERM_RE(line) # None THEN HeaderLine(st, line)
             ELSE ValueLine(st, line)

\* The loop from a state on: the state after the first line is computed,
\* then the loop goes on from it.
RECURSIVE ParseFrom(_, _)
ParseFrom(st, lines) ==
    IF lines = <<>> THEN st
    ELSE CHOOSE last \in {ParseFrom(next, Tail(lines)) :
                             next \in {LoopBody(st, Head(lines))}} : TRUE

\* Lines 41-83, given the lines of the text.
parse_terms_from_text(lines) ==
    ParseFrom([terms |-> <<>>, current_term |-> None], lines).terms

\* ----------------------------------------------------------------------
\* Input lines of the parser specification

MaxLines == 3

TermGradePoints == <<"T", "e", "r", "m", " ", "G", "r", "a", "d", "e", " ",
        "P", "o", "i", "n", "t", "s">>

TermGpaCredits == <<"T", "e", "r", "m", " ", "G", "P", "A", " ", "C", "r",
        "e", "d", "i", "t", "s">>

HeaderLines ==
    { <<"f", "a", "l", "l">> \o <<Nbsp>> \o <<" ", "2", "0", "2", "5">>,
      <<"W", "a", "t", "e", "r", "f", "a", "l", "l", " ", "2", "0", "2",
              "5">>,
      <<"F", "a", "l", "l", " ", "2", "0", "2", "5",
              " ">> \o TermGradePoints \o <<":", " ", "5">> }

ValueLines ==
    { TermGradePoints \o <<":", " ", "1", ".", "5">>,
      <<"t", "e", "r", "m", " ", "g", "r", "a", "d", "e", " ", "p", "o",
              "i", "n", "t", "s", " ", "1", ",", "0">>,
      TermGradePoints \o <<":", " ", ".">>,
      TermGpaCredits \o <<":", " ", "2", " ">> \o TermGradePoints \o <<":",
              " ", "7">> }

OtherLines == { <<>> }

Lines == HeaderLines \cup ValueLines \cup OtherLines

\* ----------------------------------------------------------------------
\* The parser as a state machine: one step per line of the input

parsevars == <<text, terms, current_term, ppc>>

mainvars == <<mpc, parsed_terms, chronological_terms, start, end,
              selected_terms, cursor, user_in, total_gp, total_cr, skipped,
              report, exit_code>>

convvars == <<json_in, csv_file, csv_before, json_out, cpc, cstatus>>

vars == <<parsevars, mainvars, convvars>>

ConvIdle ==
    /\ json_in = [root |-> "list", items |-> <<>>]
    /\ csv_file = None
    /\ csv_before = None
    /\ json_out = None
    /\ cpc = "idle"
    /\ cstatus = ""

NoCursor == [t |-> 0, key |-> ""]

MainIdle ==
    /\ parsed_terms = <<>>
    /\ chronological_terms = <<>>
    /\ start = None
    /\ end = None
    /\ selected_terms = <<>>
    /\ cursor = NoCursor
    /\ user_in = None
    /\ total_gp = None
    /\ total_cr = None
    /\ skipped = None
    /\ report = ""
    /\ exit_code = None

InitParse ==
    /\ text = <<>>
    /\ terms = <<>>
    /\ current_term = None
    /\ ppc = "loop"
    /\ mpc = "idle"
    /\ MainIdle
    /\ ConvIdle

ParseLine(raw_line) ==
    /\ ppc = "loop"
    /\ Len(text) < MaxLines
    /\ LET st == LoopBody([terms |-> terms, current_term |-> current_term],
                          raw_line)
       IN  /\ terms' = st.terms
           /\ current_term' = st.current_term
    /\ text' = Append(text, raw_line)
    /\ UNCHANGED <<ppc, mainvars, convvars>>

ParseReturn ==
    /\ ppc = "loop"
    /\ ppc' = "returned"
    /\ UNCHANGED <<text, terms, current_term, mainvars, convvars>>

NextParse ==
    \/ \E raw_line \in Lines : ParseLine(raw_line)
    \/ ParseReturn

SpecParse == InitParse /\ [][NextParse]_vars

\* ----------------------------------------------------------------------
\* compute_cumulative_gpa_for_term_list

Entry(d, name) == d[DictIndex(d, name)]

\* Line 93: gp is None or cr is None
EntryMissing(e) == e.grade_points = None \/ e.credits = None

RECURSIVE Accumulate(_, _, _)
Accumulate(d, list, acc) ==
    IF list = <<>> THEN acc
    ELSE LET e == Entry(d, Head(list))
         IN  IF EntryMissing(e)
             THEN Accumulate(d, Tail(list),
                             [acc EXCEPT !.skipped = Append(@, Head(list))])
             ELSE Accumulate(d, Tail(list),
                             [acc EXCEPT
                                 !.total_gp = Plus(@, e.grade_points[1]),
                                 !.total_cr = Plus(@, e.credits[1])])

\* Lines 85-99.
compute_cumulative_gpa_for_term_list(terms_dict, list) ==
    Accumulate(terms_dict, list,
               [total_gp |-> Zero(FALSE), total_cr |-> Zero(FALSE),
                skipped |-> <<>>])

\* ----------------------------------------------------------------------
\* prompt_for_missing_in_range: the loops over selected terms and the two
\* keys, as positions 1 .. 2 * Len(selected)

FieldKeys == <<"grade_points", "credits">>

Position(c) == 2 * (c.t - 1) + (IF c.key = "grade_points" THEN 1 ELSE 2)

CursorAt(p) == [t |-> (p + 1) \div 2, key |-> FieldKeys[2 - (p % 2)]]

\* The first position at or after p whose field is None, or 0.
NextMissing(d, list, p) ==
    LET open == {q \in p..(2 * Len(list)) :
                    Entry(d, list[CursorAt(q).t])[CursorAt(q).key] = None}
    IN  IF open = {} THEN 0 ELSE Min(open)

\* terms[t][key] = value
StoreField(d, name, key, value) ==
    [d EXCEPT ![DictIndex(d, name)][key] = value]

\* ----------------------------------------------------------------------
\* main of gpacalculator.py

MaxTerms == 2

\* Lines 28-39.  A PDF is unreadable (opening it or extracting from it
\* raises) or gives, per page, a text or None.
Unreadable == [ok |-> FALSE, pages |-> <<>>]

Pdf(pages) == [ok |-> TRUE, pages |-> pages]

RECURSIVE Join(_)
Join(ts) ==
    IF ts = <<>> THEN <<>>
    ELSE IF Len(ts) = 1 THEN ts[1]
    ELSE ts[1] \o <<"\n">> \o Join(Tail(ts))

\* None (sys.exit(1)) or the page texts that are not empty, joined.
extract_text_from_pdf(pdf) ==
    IF ~pdf.ok THEN None
    ELSE LET kept == SelectSeq(pdf.pages, LAMBDA t : t # None /\ t[1] # <<>>)
         IN  Some(Join([i \in 1..Len(kept) |-> kept[i][1]]))

Reverse(q) == [i \in 1..Len(q) |-> q[Len(q) + 1 - i]]

Names(d) == [i \in 1..Len(d) |-> d[i].name]

\* q[lo:hi] of Python for lo >= 0: the indices are clamped to the list.
Slice(q, lo, hi) ==
    SubSeq(q, lo + 1, IF hi > Len(q) THEN Len(q) ELSE hi)

\* len(q), as an int.
PyLen(q) == PyLong(FALSE, Significant(DecimalChars(Len(q))))

EndBeyondLengthOnly(s, e, n) ==
    IntLess(s, PyLong(FALSE, <<>>)) \/ IntLess(n, e) \/ IntLess(e, s)

\* Line 142: start < 0 or end >= len(chronological_terms) or start > end
RangeInvalid(s, e, n) ==
    IntLess(s, PyLong(FALSE, <<>>)) \/ ~IntLess(e, n) \/ IntLess(e, s)

\* Lines 165-169: what main prints last, given total_cr.
Report(total) ==
    IF IsZero(total) THEN "Cannot compute GPA" ELSE "CUMULATIVE GPA"

OverWholeStore(d, list) ==
    compute_cumulative_gpa_for_term_list(d, Reverse(Names(d)))

\* Line 151.
Totals(d, list) == compute_cumulative_gpa_for_term_list(d, list)

\* Lines 151-169, once no prompt is left: the totals and the report.
Finish(d, list) ==
    LET r == Totals(d, list)
    IN  /\ total_gp' = Some(r.total_gp)
        /\ total_cr' = Some(r.total_cr)
        /\ skipped' = Some(r.skipped)
        /\ report' = Report(r.total_cr)
        /\ mpc' = "done"
        /\ cursor' = NoCursor

\* The prompt waits at position p of the terms it was given, or, with
\* nothing left to ask (p = 0), main runs to its end.
AfterPrompt(d, list, p) ==
    IF p = 0 THEN Finish(d, list)
    ELSE /\ cursor' = CursorAt(p)
         /\ mpc' = "prompt"
         /\ UNCHANGED <<total_gp, total_cr, skipped, report>>

AllTermsPrompted(chrono, list) == chrono

\* Line 149: the terms handed to prompt_for_missing_in_range.
PromptedTerms(chrono, list) == list

\* The PDFs main is given: unreadable, or one page per term, a page
\* holding a header line, then optionally a grade points line and a
\* credits line.
HeaderOf(n) ==
    IF n % 2 = 1 THEN <<"F", "a", "l", "l", " ", "2", "0", "2", "5">>
    ELSE <<"T", "e", "r", "m", ":", " ", "S", "p", "r", "i", "n", "g", " ",
            "Q", "t", "r", " ", "2", "0", "2", "4">>

GpChoices == { <<>>, <<"\n">> \o TermGradePoints \o <<":", " ", "1", "0">> }

CrChoices == { <<>>, <<"\n">> \o TermGpaCredits \o <<":", " ", "0">>,
               <<"\n">> \o TermGpaCredits \o <<":", " ", "4", ".", "0",
                       "0">> }

RECURSIVE PagesOf(_)
PagesOf(n) ==
    IF n = 0 THEN { <<>> }
    ELSE { Append(t, Some(HeaderOf(n) \o g \o c)) :
             t \in PagesOf(n - 1), g \in GpChoices, c \in CrChoices }

Pdfs ==
    { Unreadable }
    \cup { Pdf(p) : p \in UNION { PagesOf(n) : n \in 0..MaxTerms } }
    \cup { Pdf(<<None, Some(<<>>), Some(HeaderOf(1)), Some(<<"x">>)>>) }

\* What the user types for a bound: a place in the list or just outside
\* it, no number, a number written with blanks and an underscore, and
\* one of eleven digits.
RangeInputs ==
    { <<DigitChars[n + 1]>> : n \in 0..(MaxTerms + 1) }
    \cup { <<"x">>, <<" ", "1", "_", "0">>, <<"1", "2", "3", "4", "5", "6",
            "7", "8", "9", "0", "1">> }

Responses == { <<>>, <<"a", "b", "c">>, <<"3">>, <<"-", "5">> }

InitMain ==
    /\ text = <<>>
    /\ terms = <<>>
    /\ current_term = None
    /\ ppc = "idle"
    /\ mpc = "start"
    /\ MainIdle
    /\ ConvIdle

\* Lines 118-119 and 37-39: the PDF cannot be read.
PdfUnreadable(pdf) ==
    /\ mpc = "start"
    /\ extract_text_from_pdf(pdf) = None
    /\ mpc' = "exit"
    /\ exit_code' = Some(1)
    /\ report' = "Error opening PDF:"
    /\ UNCHANGED <<parsevars, parsed_terms, chronological_terms, start, end,
                   selected_terms, cursor, user_in, total_gp, total_cr, skipped>>
    /\ UNCHANGED convvars

\* Lines 118-123: the text is read and parsed, and holds no term.
NoTermsFound(pdf) ==
    /\ mpc = "start"
    /\ extract_text_from_pdf(pdf) # None
    /\ \E lines \in {SplitLines(extract_text_from_pdf(pdf)[1])} :
          /\ parse_terms_from_text(lines) = <<>>
          /\ text' = lines
    /\ ppc' = "returned"
    /\ mpc' = "exit"
    /\ exit_code' = Some(1)
    /\ report' = "No terms found."
    /\ UNCHANGED <<terms, current_term, parsed_terms, chronological_terms,
                   start, end, selected_terms, cursor, user_in, total_gp,
                   total_cr, skipped>>
    /\ UNCHANGED convvars

\* Lines 118-133: the text is read and parsed, and its terms are listed
\* oldest first.
ListTerms(pdf) ==
    /\ mpc = "start"
    /\ extract_text_from_pdf(pdf) # None
    /\ \E lines \in {SplitLines(extract_text_from_pdf(pdf)[1])} :
       \E st \in {ParseFrom([terms |-> <<>>, current_term |-> None], lines)} :
          /\ st.terms # <<>>
          /\ text' = lines
          /\ terms' = st.terms
          /\ current_term' = st.current_term
          /\ parsed_terms' = st.terms
          /\ chronological_terms' = Reverse(Names(st.terms))
    /\ ppc' = "returned"
    /\ mpc' = "ask_range"
    /\ UNCHANGED <<start, end, selected_terms, cursor, user_in, total_gp,
                   total_cr, skipped, report, exit_code>>
    /\ UNCHANGED convvars

\* Lines 135-140: one of the two inputs is no integer.
EnterNonNumeric(in1, in2) ==
    /\ mpc = "ask_range"
    /\ \E p1 \in {PyInt(in1)} :
          /\ p1 = None \/ PyInt(in2) = None
          /\ start' = IF p1 = None THEN None ELSE Some(MinusOne(p1[1]))
    /\ end' = None
    /\ mpc' = "exit"
    /\ exit_code' = Some(1)
    /\ report' = "Invalid input."
    /\ UNCHANGED <<parsevars, parsed_terms, chronological_terms,
                   selected_terms, cursor, user_in, total_gp, total_cr, skipped>>
    /\ UNCHANGED convvars

\* Lines 135-144: the range is rejected.
EnterInvalidRange(in1, in2) ==
    /\ mpc = "ask_range"
    /\ \E p1 \in {PyInt(in1)} : \E p2 \in {IF p1 = None THEN None
                                             ELSE PyInt(in2)} :
          /\ p1 # None /\ p2 # None
          /\ RangeInvalid(MinusOne(p1[1]), MinusOne(p2[1]),
                          PyLen(chronological_terms))
          /\ start' = Some(MinusOne(p1[1]))
          /\ end' = Some(MinusOne(p2[1]))
    /\ mpc' = "exit"
    /\ exit_code' = Some(1)
    /\ report' = "Invalid range."
    /\ UNCHANGED <<parsevars, parsed_terms, chronological_terms,
                   selected_terms, cursor, user_in, total_gp, total_cr, skipped>>
    /\ UNCHANGED convvars

\* Lines 135-149: the range is accepted and the prompt runs up to its
\* first input (lines 104-108), or, with nothing missing, main runs to
\* its end (lines 151-169).
EnterRange(in1, in2) ==
    /\ mpc = "ask_range"
    /\ \E p1 \in {PyInt(in1)} : \E p2 \in {IF p1 = None THEN None
                                             ELSE PyInt(in2)} :
          /\ p1 # None /\ p2 # None
          /\ LET s == MinusOne(p1[1])
                 e == MinusOne(p2[1])
                 sel == Slice(chronological_terms, IntOf(s.ds),
                              IntOf(e.ds) + 1)
                 asked == PromptedTerms(chronological_terms, sel)
             IN  /\ ~RangeInvalid(s, e, PyLen(chronological_terms))
                 /\ start' = Some(s)
                 /\ end' = Some(e)
                 /\ selected_terms' = sel
                 /\ AfterPrompt(terms, sel, NextMissing(terms, asked, 1))
    /\ UNCHANGED terms
    /\ UNCHANGED <<text, current_term, ppc, parsed_terms, chronological_terms,
                   user_in, exit_code>>
    /\ UNCHANGED convvars

\* Lines 107-115: one response to the prompt at the cursor, then the
\* loops up to the next input, or to the end of main.
Respond(resp) ==
    /\ mpc = "prompt"
    /\ user_in' = Some(Strip(resp))
    /\ LET asked == PromptedTerms(chronological_terms, selected_terms)
           p     == Position(cursor)
           name  == asked[cursor.t]
           d2    == StoreField(terms, name, cursor.key, Float(Strip(resp)))
       IN  IF Strip(resp) = <<>>
           THEN /\ terms' = terms
                /\ AfterPrompt(terms, selected_terms,
                               NextMissing(terms, asked, p + 1))
           ELSE IF Float(Strip(resp)) = None
           THEN UNCHANGED <<terms, cursor, mpc, total_gp, total_cr, skipped,
                            report>>
           ELSE /\ terms' = d2
                /\ AfterPrompt(d2, selected_terms, NextMissing(d2, asked, p + 1))
    /\ UNCHANGED <<text, current_term, ppc, parsed_terms, chronological_terms,
                   start, end, selected_terms, exit_code>>
    /\ UNCHANGED convvars

NextMain ==
    \/ \E pdf \in Pdfs : PdfUnreadable(pdf)
    \/ \E pdf \in Pdfs : NoTermsFound(pdf)
    \/ \E pdf \in Pdfs : ListTerms(pdf)
    \/ \E in1, in2 \in RangeInputs : EnterNonNumeric(in1, in2)
    \/ \E in1, in2 \in RangeInputs : EnterInvalidRange(in1, in2)
    \/ \E in1, in2 \in RangeInputs : EnterRange(in1, in2)
    \/ \E resp \in Responses : Respond(resp)

SpecMain == InitMain /\ [][NextMain]_vars

\* ----------------------------------------------------------------------
\* Properties of parse_terms_from_text (checked under SpecParse)

\* The label of every line read, None for a line that is no header line.
Labels == [i \in 1..Len(text) |-> TERM_RE(Clean(text[i]))]

\* The positions of the header lines, given the labels.
HeaderIdx(lab) == {i \in DOMAIN lab : lab[i] # None}

\* The position in the input of the j-th header line.
HeaderAt(lab, j) ==
    CHOOSE i \in HeaderIdx(lab) :
       Cardinality({k \in HeaderIdx(lab) : k <= i}) = j

\* How many header lines up to the j-th carry the j-th header's label.
Occurrence(lab, j) ==
    Cardinality({k \in 1..j : lab[HeaderAt(lab, k)] = lab[HeaderAt(lab, j)]})

\* C2: every header line creates its own entry: the store has as many
\* entries as the input has header lines, the entry of the j-th header is
\* keyed by its label X when it is the first header with that label and by
\* "X (k)" when it is the k-th, and all keys are pairwise distinct.
C2_EntryPerHeader ==
    LET lab == Labels
    IN  /\ Len(terms) = Cardinality(HeaderIdx(lab))
        /\ \A j \in 1..Len(terms) :
              terms[j].name =
                 IF Occurrence(lab, j) = 1 THEN lab[HeaderAt(lab, j)]
                 ELSE lab[HeaderAt(lab, j)] \o <<" ", "(">>
                         \o <<DigitChars[Occurrence(lab, j) + 1]>> \o <<")">>
        /\ \A i, j \in 1..Len(terms) : i # j => terms[i].name # terms[j].name

\* Three headers with one label, written differently: X, X (2), X (3).
C2_Witness ==
    /\ Len(terms) = 3
    /\ text[1] # text[2]
    /\ terms[1].name = <<"f", "a", "l", "l", " ", "2", "0", "2", "5">>
    /\ terms[2].name = <<"f", "a", "l", "l", " ", "2", "0", "2", "5", " ",
            "(", "2", ")">>
    /\ terms[3].name = <<"f", "a", "l", "l", " ", "2", "0", "2", "5", " ",
            "(", "3", ")">>

\* C3: a step of the parser changes the fields of at most one term, the
\* current one, which is the term of the most recent header (the last
\* entry), and only on a line that is no header; before the first header
\* nothing changes; a header line only adds an entry whose fields are
\* unset, whatever else the line holds.
C3_ValuesGoToCurrentTerm ==
    [][ /\ Len(terms') >= Len(terms)
        /\ \A i \in 1..Len(terms) :
              terms'[i] # terms[i] =>
                 /\ current_term = Some(terms[i].name)
                 /\ i = Len(terms)
                 /\ Len(terms') = Len(terms)
                 /\ TERM_RE(Clean(text'[Len(text')])) = None
        /\ Len(terms') > Len(terms) =>
              /\ Len(terms') = Len(terms) + 1
              /\ TERM_RE(Clean(text'[Len(text')])) # None
              /\ terms'[Len(terms')].grade_points = None
              /\ terms'[Len(terms')].credits = None
              /\ current_term' = Some(terms'[Len(terms')].name)
      ]_vars

\* The number on every line read for a value pattern, None where the
\* pattern does not match or its capture is no number.
Numbers(RE(_)) ==
    [i \in 1..Len(text) |->
        IF RE(Clean(text[i])) = None THEN None
        ELSE Float(RemoveCommas(RE(Clean(text[i]))))]

\* A value line before the first header, then a header line that also
\* holds a value pattern, then a value line: only the last one counts.
C3_Witness ==
    /\ Len(text) = 3
    /\ Labels[1] = None /\ Numbers(GP_RE)[1] # None
    /\ Labels[2] # None /\ Numbers(GP_RE)[2] # None
    /\ Labels[3] = None /\ Numbers(GP_RE)[3] # None
    /\ Len(terms) = 1
    /\ terms[1].grade_points = Numbers(GP_RE)[3]
    /\ terms[1].grade_points # Numbers(GP_RE)[2]

\* The lines of the j-th term: after its header, up to the next header.
SegmentOf(lab, j) ==
    (HeaderAt(lab, j) + 1) ..
    (IF j = Cardinality(HeaderIdx(lab)) THEN Len(text)
     ELSE HeaderAt(lab, j + 1) - 1)

\* The lines among S that hold a well-formed number.
WellFormedIn(S, num) == {i \in S : num[i] # None}

LastValueIn(S, num) ==
    IF WellFormedIn(S, num) = {} THEN None
    ELSE num[Max(WellFormedIn(S, num))]

\* C10: last write wins: a term's grade points (credits) is the value of
\* the last well-formed grade points (credits) line of the term, lines
\* whose number does not parse being passed over; it is unset when the
\* term has no well-formed line.
C10_LastWriteWins ==
    LET lab == Labels
        gp  == Numbers(GP_RE)
        cr  == Numbers(CR_RE)
    IN  /\ Len(terms) = Cardinality(HeaderIdx(lab))
        /\ \A j \in 1..Len(terms) :
              /\ terms[j].grade_points = LastValueIn(SegmentOf(lab, j), gp)
              /\ terms[j].credits = LastValueIn(SegmentOf(lab, j), cr)

\* Two well-formed grade points lines with different values: the second
\* value stands.
C10_Witness ==
    /\ Len(text) >= 3
    /\ Len(terms) = 1
    /\ HeaderIdx(Labels) = {1}
    /\ Cardinality(WellFormedIn(2..Len(text), Numbers(GP_RE))) >= 2
    /\ \E i \in WellFormedIn(2..Len(text), Numbers(GP_RE)) :
          Numbers(GP_RE)[i] # terms[1].grade_points

\* A float that is not below zero.
NonNegative(v) ==
    \/ v.k = "num" /\ (~v.neg \/ v.man = ZeroMan)
    \/ v.k = "inf" /\ ~v.neg

\* The parser alone never stores a negative value: the pattern admits no sign.
ParsedFieldsNonNegative ==
    \A i \in 1..Len(terms) : \A key \in {"grade_points", "credits"} :
       terms[i][key] = None \/ NonNegative(terms[i][key][1])

\* ----------------------------------------------------------------------
\* Properties of main, the prompt and the aggregator (checked under SpecMain)

Selected == {selected_terms[i] : i \in 1..Len(selected_terms)}

\* The selected terms that have both fields set, in selection order.
Counted ==
    SelectSeq(selected_terms, LAMBDA n : ~EntryMissing(Entry(terms, n)))

\* The values of a field over the counted terms, in selection order.
Operands(key) == [i \in 1..Len(Counted) |-> Entry(terms, Counted[i])[key][1]]

\* C1: the totals are the sums over the selected terms with both fields
\* set; every selected term with a field unset is in skipped, in selection
\* order, and no other term is.
C1_TotalsAndSkipped ==
    mpc = "done" =>
       /\ total_gp = Some(FloatSum(Operands("grade_points")))
       /\ total_cr = Some(FloatSum(Operands("credits")))
       /\ skipped = Some(SelectSeq(selected_terms,
                            LAMBDA n : EntryMissing(Entry(terms, n))))

\* Two terms selected, one complete, the other with credits but no grade
\* points: the second is skipped and its credits are not added.
C1_Witness ==
    /\ mpc = "done"
    /\ Len(selected_terms) = 2
    /\ Len(skipped[1]) = 1
    /\ Entry(terms, skipped[1][1]).credits # None
    /\ ~IsZero(Entry(terms, skipped[1][1]).credits[1])
    /\ total_gp[1] = Float(<<"1", "0">>)[1]
    /\ total_cr[1] = Float(<<"4">>)[1]

\* The 0-based place in the chronological list that a bound names, None
\* for a bound below 0 or from the length of the list on.
Place(i) ==
    IF /\ ~i.neg
       /\ Len(i.ds) <= Len(DecimalChars(Len(chronological_terms)))
       /\ IntOf(i.ds) < Len(chronological_terms)
    THEN Some(IntOf(i.ds)) ELSE None

\* C4: once both bounds are read, the range is accepted exactly when
\* 0 <= start <= end < n; otherwise main has exited with code 1, no prompt
\* was answered, nothing was aggregated and the store is as parsed.
C4_RangeValidation ==
    (start # None /\ end # None) =>
       LET ok == /\ Place(start[1]) # None /\ Place(end[1]) # None
                 /\ Place(start[1])[1] <= Place(end[1])[1]
       IN  /\ ok => /\ mpc \in {"prompt", "done"}
                    /\ exit_code = None
                    /\ selected_terms =
                          SubSeq(chronological_terms, Place(start[1])[1] + 1,
                                 Place(end[1])[1] + 1)
           /\ ~ok => /\ mpc = "exit"
                     /\ exit_code = Some(1)
                     /\ terms = parsed_terms
                     /\ user_in = None
                     /\ cursor = NoCursor
                     /\ total_gp = None /\ total_cr = None /\ skipped = None

\* An inverted range inside the list, over a store with a field missing.
C4_Witness ==
    /\ mpc = "exit"
    /\ start # None /\ end # None
    /\ Place(start[1]) # None /\ Place(end[1]) # None
    /\ Place(end[1])[1] < Place(start[1])[1]
    /\ \E i \in 1..Len(terms) : EntryMissing(terms[i])

\* C5: a response to the prompt changes at most the prompted field, which
\* is unset and belongs to a selected term; keys, their order and every
\* other field stay; a blank response leaves the field unset and moves on,
\* a non-numeric one changes nothing and the same field is prompted again,
\* a number is stored and the prompt moves on; a field that holds a value
\* is never changed.
C5_PromptFrame ==
    [][ mpc # "start" =>
        /\ Names(terms') = Names(terms)
        /\ \A j \in 1..Len(terms) : \A key \in {"grade_points", "credits"} :
              terms[j][key] # None => terms'[j][key] = terms[j][key]
        /\ \A j \in 1..Len(terms) : terms'[j].raw_lines = terms[j].raw_lines
        /\ mpc # "prompt" => terms' = terms
        /\ mpc = "prompt" =>
              /\ cursor.t \in 1..Len(selected_terms)
              /\ LET i == DictIndex(terms, selected_terms[cursor.t])
                     moved == mpc' = "done" \/ (/\ mpc' = "prompt"
                                                /\ Position(cursor') > Position(cursor))
                 IN  /\ terms[i][cursor.key] = None
                     /\ \A j \in 1..Len(terms) : \A key \in {"grade_points",
                             "credits"} :
                           (j # i \/ key # cursor.key) => terms'[j][key] = terms[j][key]
                     /\ user_in' # None
                     /\ user_in'[1] = <<>> => terms' = terms /\ moved
                     /\ (user_in'[1] # <<>> /\ Float(user_in'[1]) = None) =>
                           terms' = terms /\ cursor' = cursor /\ mpc' = "prompt"
                     /\ Float(user_in'[1]) # None =>
                           terms'[i][cursor.key] = Float(user_in'[1]) /\ moved
      ]_vars

\* A number was stored on a selected term while a term outside the
\* selection still has a field missing.
C5_Witness ==
    /\ mpc \in {"prompt", "done"}
    /\ user_in # None
    /\ terms # parsed_terms
    /\ \E j \in 1..Len(terms) :
          terms[j].name \notin Selected /\ EntryMissing(terms[j])

\* C6: every field of every term is unset or a non-negative number.
C6_FieldsNonNegative ==
    \A i \in 1..Len(terms) : \A key \in {"grade_points", "credits"} :
       terms[i][key] = None \/ NonNegative(terms[i][key][1])

\* ----------------------------------------------------------------------
\* csv_json_conversion.py.  Text is a sequence of code points.  A JSON
\* scalar is [t, s, n]: a string (its characters in s), an integer (the
\* characters of its numeral in the JSON file in s), a boolean (in n), or
\* null.  A list element is a dict (a function from keys to scalars) or
\* something else, of which the model keeps the numerals of the integers
\* in it (in ints); a document is its root's kind and the elements of the
\* list (the one object, for an object root).

COMMA == 44

QUOTE == 34

CR == 13

LF == 10

\* The end-of-line mark the csv reader feeds its state machine after a
\* line: no code point, so that every character of a line, NUL too, is an
\* ordinary one.
EOL == 0 - 2

JStr(s) == [t |-> "str", s |-> s, n |-> 0]

JInt(numeral) == [t |-> "int", s |-> numeral, n |-> 0]

JBool(b) == [t |-> "bool", s |-> <<>>, n |-> IF b THEN 1 ELSE 0]

JNull == [t |-> "null", s |-> <<>>, n |-> 0]

Dict(f) == [isdict |-> TRUE, d |-> f, ints |-> <<>>]

\* An element that is no object: a scalar or a list, with the numerals of
\* the integers it is or holds.
NonObject(numerals) == [isdict |-> FALSE, d |-> <<>>, ints |-> numerals]

\* An element that is no object and holds no integer, such as null.
NonDict == NonObject(<<>>)

\* The digits of a JSON numeral, its sign apart.
NumeralDigits(numeral) ==
    IF numeral # <<>> /\ numeral[1] = 45 THEN Tail(numeral) ELSE numeral

\* Line 8, json.load: every integer of the document, in an object or
\* not, is made by int() of its numeral, which raises ValueError for one
\* of more than 4300 digits.
Loadable(items) ==
    \A i \in 1..Len(items) :
       /\ \A k \in DOMAIN items[i].d :
             items[i].d[k].t = "int" =>
                Len(NumeralDigits(items[i].d[k].s)) <= MaxStrDigits
       /\ \A j \in 1..Len(items[i].ints) :
             Len(NumeralDigits(items[i].ints[j])) <= MaxStrDigits

\* str() of the int a JSON numeral is loaded as: the numeral, which has
\* no leading zeros, with -0 loaded as 0.
IntText(numeral) == IF numeral = <<45, 48>> THEN <<48>> ELSE numeral

\* What the csv writer makes of a cell: None is the empty text, a string
\* is itself, anything else is str(value).
PyStr(v) ==
    CASE v.t = "str"  -> v.s
      [] v.t = "int"  -> IntText(v.s)
      [] v.t = "bool" -> IF v.n = 1 THEN <<84, 114, 117, 101>>
                         ELSE <<70, 97, 108, 115, 101>>
      [] v.t = "null" -> <<>>

\* a < b for strings: by code point, a proper prefix first.
LexLess(a, b) ==
    \E i \in 1..(Len(a) + 1) :
       /\ i <= Len(b)
       /\ \A j \in 1..(i - 1) : a[j] = b[j]
       /\ i > Len(a) \/ a[i] < b[i]

RECURSIVE Ascending(_)
Ascending(S) ==
    IF S = {} THEN <<>>
    ELSE LET m == CHOOSE x \in S : \A y \in S \ {x} : LexLess(x, y)
         IN  <<m>> \o Ascending(S \ {m})

RECURSIVE Descending(_)
Descending(S) ==
    IF S = {} THEN <<>>
    ELSE LET m == CHOOSE x \in S : \A y \in S \ {x} : LexLess(y, x)
         IN  <<m>> \o Descending(S \ {m})

\* Line 24: sorted(list(all_keys))
Sorted(S) == Ascending(S)

\* Lines 19-22.
AllKeys(data) ==
    UNION {DOMAIN data[i].d : i \in {j \in 1..Len(data) : data[j].isdict}}

\* ----- csv.writer, dialect excel

NeedsQuote(f) == \E i \in 1..Len(f) : f[i] \in {COMMA, QUOTE, CR, LF}

RECURSIVE DoubleQuotes(_)
DoubleQuotes(f) ==
    IF f = <<>> THEN <<>>
    ELSE IF Len(f) = 1
         THEN (IF f[1] = QUOTE THEN <<QUOTE, QUOTE>> ELSE f)
    ELSE DoubleQuotes(SubSeq(f, 1, Len(f) \div 2))
         \o DoubleQuotes(SubSeq(f, Len(f) \div 2 + 1, Len(f)))

Quoted(f) == <<QUOTE>> \o DoubleQuotes(f) \o <<QUOTE>>

RECURSIVE Joined(_)
Joined(fields) ==
    IF fields = <<>> THEN <<>>
    ELSE IF Len(fields) = 1 THEN Head(fields)
    ELSE Head(fields) \o <<COMMA>> \o Joined(Tail(fields))

\* writer.writerow: a lone empty field is written quoted.
WriteRow(fields) ==
    (IF Len(fields) = 1 /\ fields[1] = <<>> THEN Quoted(<<>>)
     ELSE Joined([i \in 1..Len(fields) |->
                     IF NeedsQuote(fields[i]) THEN Quoted(fields[i])
                     ELSE fields[i]]))
    \o <<CR, LF>>

\* DictWriter's restval, the cell of a column the record lacks.
RestVal == <<>>

\* DictWriter._dict_to_list and the writer's conversion of each cell.
RowCells(obj, fieldnames) ==
    [i \in 1..Len(fieldnames) |->
        IF fieldnames[i] \in DOMAIN obj THEN PyStr(obj[fieldnames[i]])
        ELSE RestVal]

\* The code points of the surrogates, U+D800 to U+DFFF, which a JSON
\* string may hold singly (written \ud800) and UTF-8 does not encode.
Surrogates == 55296..57343

\* Line 26, encoding='utf-8': each line the writer hands to the file is
\* encoded as a whole, and one holding a surrogate raises
\* UnicodeEncodeError.
Encodable(line) == \A i \in 1..Len(line) : line[i] \notin Surrogates

\* Lines 28 and 29, through the file: the lines are written one by one
\* and the first that cannot be encoded raises UnicodeEncodeError, the
\* lines before it staying in the file.
WriteLine(line, content) ==
    IF Encodable(line) THEN [status |-> "ok", content |-> content \o line]
    ELSE [status |-> "UnicodeEncodeError", content |-> content]

\* Line 29, writer.writerows(data): rows are written one by one; the
\* first element that is no dict raises AttributeError.
RECURSIVE WriteRows(_, _, _)
WriteRows(data, fieldnames, content) ==
    IF data = <<>> THEN [status |-> "ok", content |-> content]
    ELSE IF ~Head(data).isdict
         THEN [status |-> "AttributeError", content |-> content]
    ELSE LET w == WriteLine(WriteRow(RowCells(Head(data).d, fieldnames)),
                            content)
         IN  IF w.status = "ok"
             THEN WriteRows(Tail(data), fieldnames, w.content)
             ELSE w

\* Lines 6-32.  file is the output file before the call.
json_to_csv(doc, file) ==
    IF ~Loadable(doc.items) \/ doc.root = "scalar"
    THEN [status |-> "ValueError", file |-> file]
    ELSE IF doc.items = <<>> THEN [status |-> "warning", file |-> file]
    ELSE LET fieldnames == Sorted(AllKeys(doc.items))
             h == WriteLine(WriteRow(fieldnames), <<>>)
             w == IF h.status = "ok"
                  THEN WriteRows(doc.items, fieldnames, h.content) ELSE h
         IN  [status |-> w.status, file |-> Some(w.content)]

\* ----- reading the CSV file

\* \r\n and \r become \n: the \n after a \r is dropped and every \r is
\* turned into \n.
Translated(cs) ==
    LET kept == SelectSeq([i \in 1..Len(cs) |-> i],
                          LAMBDA i : ~(cs[i] = LF /\ i > 1 /\ cs[i - 1] = CR))
    IN  [k \in 1..Len(kept) |-> IF cs[kept[k]] = CR THEN LF ELSE cs[kept[k]]]

\* Line 38: open(csv_file, 'r') without newline='': universal newlines,
\* every \r\n and every \r reads as \n.
TextModeRead(cs) == Translated(cs)

SaveField(st) == [st EXCEPT !.fields = Append(@, st.field), !.field = <<>>]

\* csv.field_size_limit(), which the program leaves as it is.
FieldLimit == 131072

\* parse_add_char: the character joins the field and the reader goes on
\* in state next, unless the field has reached the limit, which is an
\* error.
AddChar(st, c, next) ==
    IF Len(st.field) >= st.limit THEN [st EXCEPT !.state = "ERROR"]
    ELSE [st EXCEPT !.field = Append(@, c), !.state = next]

AfterNewline(c) == IF c = EOL THEN "START_RECORD" ELSE "EAT_CRNL"

\* parse_process_char of the csv reader, dialect excel.
ProcessChar(st, c) ==
    CASE st.state = "START_RECORD" /\ c = EOL -> st
      [] st.state = "START_RECORD" /\ c \in {CR, LF} ->
            [st EXCEPT !.state = "EAT_CRNL"]
      [] st.state \in {"START_RECORD", "START_FIELD"} /\ c \notin {CR, LF}
            /\ ~(st.state = "START_RECORD" /\ c = EOL) ->
            IF c = EOL THEN [SaveField(st) EXCEPT !.state = "START_RECORD"]
            ELSE IF c = QUOTE THEN [st EXCEPT !.state = "IN_QUOTED_FIELD"]
            ELSE IF c = COMMA THEN [SaveField(st) EXCEPT !.state = "START_FIELD"]
            ELSE AddChar(st, c, "IN_FIELD")
      [] st.state = "START_FIELD" /\ c \in {CR, LF} ->
            [SaveField(st) EXCEPT !.state = "EAT_CRNL"]
      [] st.state = "IN_FIELD" ->
            IF c \in {CR, LF, EOL}
            THEN [SaveField(st) EXCEPT !.state = AfterNewline(c)]
            ELSE IF c = COMMA THEN [SaveField(st) EXCEPT !.state = "START_FIELD"]
            ELSE AddChar(st, c, "IN_FIELD")
      [] st.state = "IN_QUOTED_FIELD" ->
            IF c = EOL THEN st
            ELSE IF c = QUOTE THEN [st EXCEPT !.state = "QUOTE_IN_QUOTED_FIELD"]
            ELSE AddChar(st, c, "IN_QUOTED_FIELD")
      [] st.state = "QUOTE_IN_QUOTED_FIELD" ->
            IF c = QUOTE THEN AddChar(st, c, "IN_QUOTED_FIELD")
            ELSE IF c = COMMA THEN [SaveField(st) EXCEPT !.state = "START_FIELD"]
            ELSE IF c \in {CR, LF, EOL}
            THEN [SaveField(st) EXCEPT !.state = AfterNewline(c)]
            ELSE AddChar(st, c, "IN_FIELD")
      [] st.state = "EAT_CRNL" ->
            IF c \in {CR, LF} THEN st
            ELSE IF c = EOL THEN [st EXCEPT !.state = "START_RECORD"]
            ELSE [st EXCEPT !.state = "ERROR"]
      [] st.state = "ERROR" -> st

\* The end of a line: the mark is processed, and a record that is
\* complete is handed out.
EndLine(st) ==
    LET e == ProcessChar(st, EOL)
    IN  IF e.state = "START_RECORD"
        THEN [e EXCEPT !.rows = Append(@, e.fields), !.fields = <<>>]
        ELSE e

\* The end of the input inside a record: what was read is handed out.
EndInput(st) ==
    IF st.state \in {"START_RECORD", "ERROR"} THEN st
    ELSE IF st.field # <<>> \/ st.state = "IN_QUOTED_FIELD"
         THEN [st EXCEPT !.rows = Append(@, Append(st.fields, st.field)),
                         !.state = "START_RECORD"]
    ELSE st

\* The reader at character i of the text.  A line ends after \n, after
\* \r\n and after a lone \r, and at the end of the input.
ReadChar(st, cs, i) ==
    LET lineEnds == \/ cs[i] = LF
                    \/ cs[i] = CR /\ ~(i < Len(cs) /\ cs[i + 1] = LF)
                    \/ i = Len(cs)
    IN  IF lineEnds THEN EndLine(ProcessChar(st, cs[i]))
        ELSE ProcessChar(st, cs[i])

\* The reader over characters lo..hi of the text, one after the other;
\* after an error nothing more is read.
RECURSIVE ReadFrom(_, _, _, _)
ReadFrom(st, cs, lo, hi) ==
    IF lo > hi \/ st.state = "ERROR" THEN st
    ELSE IF lo = hi THEN ReadChar(st, cs, lo)
    ELSE CHOOSE r \in {ReadFrom(half, cs, (lo + hi) \div 2 + 1, hi) :
                          half \in {ReadFrom(st, cs, lo, (lo + hi) \div 2)}} :
            TRUE

\* csv.reader with the given limit on the length of a field: the rows of
\* the text, or ERROR.
ReadRows(cs, limit) ==
    EndInput(ReadFrom([state |-> "START_RECORD", field |-> <<>>,
                       fields |-> <<>>, rows |-> <<>>, limit |-> limit],
                      cs, 1, Len(cs)))

\* Line 39: the reader of the csv module as the program finds it.
ReadCsv(cs) == ReadRows(cs, FieldLimit)

\* DictReader.__next__ for one row that is not empty: dict(zip(fieldnames,
\* row)), a later duplicate of a column winning; a column the row is too
\* short for maps to None; cells beyond the header are kept under the
\* key None (field rest).
RowDict(fieldnames, row) ==
    LET m == IF Len(row) < Len(fieldnames) THEN Len(row) ELSE Len(fieldnames)
        names == {fieldnames[i] : i \in 1..Len(fieldnames)}
        at(k) == {i \in 1..m : fieldnames[i] = k}
    IN  [d |-> [k \in names |->
                   IF \E i \in (m + 1)..Len(fieldnames) : fieldnames[i] = k
                      \/ at(k) = {}
                   THEN JNull ELSE JStr(row[Max(at(k))])],
         rest |-> SubSeq(row, Len(fieldnames) + 1, Len(row))]

\* Lines 35-47.  file holds the characters of the CSV file.
csv_to_json(file) ==
    LET r == ReadCsv(TextModeRead(file))
        rows == SelectSeq(Tail(r.rows), LAMBDA row : row # <<>>)
    IN  IF r.state = "ERROR" THEN [status |-> "csv.Error", data |-> None]
        ELSE IF r.rows = <<>> THEN [status |-> "ok", data |-> Some(<<>>)]
        ELSE [status |-> "ok",
              data |-> Some([i \in 1..Len(rows) |-> RowDict(r.rows[1], rows[i])])]

\* ----- The conversions as a state machine

MaxRecords == 2

KeyB == <<98>>

KeyAB == <<97, 98>>

Keys == {KeyB, KeyAB}

\* A string of one surrogate, "\ud800" in the JSON file.
LoneSurrogate == <<55296>>

\* The numeral of an integer one digit longer than int() takes.
LongNumeral == [i \in 1..(MaxStrDigits + 1) |-> 49]

ValuesOf(k) ==
    IF k = KeyB
    THEN { JInt(<<49, 50>>), JNull, JStr(<<120, CR, 121>>),
           JStr(<<COMMA, QUOTE>>) }
    ELSE { JBool(TRUE), JStr(<<>>), JStr(<<LF>>) }

AllValues == UNION {ValuesOf(k) : k \in Keys}

\* The records: every choice of keys and of their values, a record with
\* a lone surrogate as a value and one with a lone surrogate as a key,
\* and a record with an integer int() does not take.
Objects ==
    UNION { {f \in [K -> AllValues] : \A k \in K : f[k] \in ValuesOf(k)} :
            K \in SUBSET Keys }
    \cup { [k \in {KeyB} |-> JStr(LoneSurrogate)],
            [k \in {LoneSurrogate} |-> JBool(TRUE)],
            [k \in {KeyB} |-> JInt(LongNumeral)] }

\* The elements: the records, an element that is no object, and one
\* that is an integer int() does not take.
Elements ==
    {Dict(f) : f \in Objects} \cup {NonDict, NonObject(<<LongNumeral>>)}

RECURSIVE ListsOf(_)
ListsOf(n) ==
    IF n = 0 THEN { <<>> }
    ELSE {Append(l, e) : l \in ListsOf(n - 1), e \in Elements}

Documents ==
    {[root |-> "list", items |-> l] :
        l \in UNION {ListsOf(n) : n \in 0..MaxRecords}}
    \cup {[root |-> "object", items |-> <<Dict(f)>>] : f \in Objects}
    \cup {[root |-> "scalar", items |-> <<>>]}

\* An output file left by an earlier run: the line "old".
OldCsv == <<111, 108, 100, CR, LF>>

InitConv ==
    /\ json_in \in Documents
    /\ csv_file \in {None, Some(OldCsv)}
    /\ csv_before = csv_file
    /\ json_out = None
    /\ cpc = "start"
    /\ cstatus = ""
    /\ text = <<>>
    /\ terms = <<>>
    /\ current_term = None
    /\ ppc = "idle"
    /\ mpc = "idle"
    /\ MainIdle

\* main, json-to-csv (lines 51-76): the input exists.
JsonToCsv ==
    /\ cpc = "start"
    /\ LET r == json_to_csv(json_in, csv_file)
       IN  /\ csv_file' = r.file
           /\ cstatus' = r.status
    /\ cpc' = "json_to_csv"
    /\ UNCHANGED <<json_in, csv_before, json_out, parsevars, mainvars>>

\* main, csv-to-json on the file json_to_csv left (lines 51-76): the
\* command runs only when its input file exists (line 61).
CsvToJson ==
    /\ cpc = "json_to_csv"
    /\ csv_file # None
    /\ LET r == csv_to_json(csv_file[1])
       IN  /\ json_out' = r.data
           /\ cstatus' = r.status
    /\ cpc' = "csv_to_json"
    /\ UNCHANGED <<json_in, csv_file, csv_before, parsevars, mainvars>>

NextConv ==
    \/ JsonToCsv
    \/ CsvToJson

SpecConv == InitConv /\ [][NextConv]_vars

\* ----------------------------------------------------------------------
\* Properties of the converter (checked under SpecConv)

ListOfObjects ==
    /\ json_in.root \in {"list", "object"}
    /\ json_in.items # <<>>
    /\ \A i \in 1..Len(json_in.items) : json_in.items[i].isdict

HasNonObject ==
    \E i \in 1..Len(json_in.items) : ~json_in.items[i].isdict

\* C7: an input whose root is a scalar, or a list with an element that is
\* no object, makes json_to_csv fail, and the output file is then as it
\* was before the call: neither created nor modified.
C7_RejectedInputWritesNothing ==
    (cpc = "json_to_csv" /\ (json_in.root = "scalar" \/ HasNonObject)) =>
       /\ cstatus \in {"ValueError", "AttributeError", "UnicodeEncodeError"}
       /\ csv_file = csv_before

\* A scalar root is rejected before the output file is opened.
ScalarRootWritesNothing ==
    (cpc = "json_to_csv" /\ json_in.root = "scalar") =>
       cstatus = "ValueError" /\ csv_file = csv_before

\* The rows of the CSV file as a CSV reader reads them that is given the
\* file's own line ends (newline='') and takes fields of any length.
FileRows == ReadRows(csv_file[1], Len(csv_file[1]) + 1).rows

\* The union of the keys of all records.
RecordKeys ==
    UNION {DOMAIN json_in.items[i].d : i \in 1..Len(json_in.items)}

\* The file's first row holds the union of the records' keys in strictly
\* ascending order.
HeaderAsStated ==
    /\ FileRows # <<>>
    /\ {FileRows[1][c] : c \in 1..Len(FileRows[1])} = RecordKeys
    /\ \A c1, c2 \in 1..Len(FileRows[1]) :
          c1 < c2 => LexLess(FileRows[1][c1], FileRows[1][c2])

\* The row after the header and i - 1 rows is that of record i: under a
\* column the record has, the text of its value, and under one it lacks,
\* nothing.
RowAsStated(i) ==
    /\ i + 1 <= Len(FileRows)
    /\ Len(FileRows[i + 1]) = Len(FileRows[1])
    /\ \A c \in 1..Len(FileRows[1]) :
          FileRows[i + 1][c] =
             IF FileRows[1][c] \in DOMAIN json_in.items[i].d
             THEN PyStr(json_in.items[i].d[FileRows[1][c]])
             ELSE <<>>

\* C8 as the claim states it, for every non-empty list of records: the file
\* holds a header row, the union of the records' keys in strictly
\* ascending order, then one row per record in input order; the cell of
\* a column the record has is the text of its value and the cell of a
\* column it lacks is empty.
C8_EveryRecordList ==
    (cpc = "json_to_csv" /\ ListOfObjects) =>
       /\ cstatus = "ok"
       /\ csv_file # None
       /\ Len(FileRows) = 1 + Len(json_in.items)
       /\ HeaderAsStated
       /\ \A i \in 1..Len(json_in.items) : RowAsStated(i)

\* Every integer of the records has at most 4300 digits.
IntegersLoad == Loadable(json_in.items)

\* Record i has a string value that holds a surrogate.
SurrogateValue(i) ==
    \E k \in DOMAIN json_in.items[i].d :
       ~Encodable(PyStr(json_in.items[i].d[k]))

\* How many lines are written before the first that holds a surrogate:
\* none if a key holds one, else the header and the records before the
\* first with such a value.
LinesBeforeSurrogate ==
    IF \E k \in RecordKeys : ~Encodable(k) THEN 0
    ELSE Min({i \in 1..Len(json_in.items) : SurrogateValue(i)})

HasSurrogate ==
    \/ \E k \in RecordKeys : ~Encodable(k)
    \/ \E i \in 1..Len(json_in.items) : SurrogateValue(i)

\* C8: for a non-empty list of records whose integers have at most 4300
\* digits and whose keys and strings hold no surrogate, the file holds a
\* header row, the union of the records' keys in strictly ascending
\* order, then one row per record in input order; the cell of a column
\* the record has is the text of its value and the cell of a column it
\* lacks is empty.  With an integer of more digits the operation fails
\* and leaves the file as it was; with a surrogate, and no such integer,
\* it fails with the file holding just the lines before the first that
\* holds a surrogate.
C8_HeaderAndRows ==
    (cpc = "json_to_csv" /\ ListOfObjects) =>
       /\ (IntegersLoad /\ ~HasSurrogate) =>
             /\ cstatus = "ok"
             /\ csv_file # None
             /\ Len(FileRows) = 1 + Len(json_in.items)
             /\ HeaderAsStated
             /\ \A i \in 1..Len(json_in.items) : RowAsStated(i)
       /\ ~IntegersLoad =>
             /\ cstatus = "ValueError"
             /\ csv_file = csv_before
       /\ (IntegersLoad /\ HasSurrogate) =>
             /\ cstatus = "UnicodeEncodeError"
             /\ csv_file # None
             /\ Len(FileRows) = LinesBeforeSurrogate
             /\ LinesBeforeSurrogate > 0 => HeaderAsStated
             /\ \A i \in 1..(LinesBeforeSurrogate - 1) : RowAsStated(i)

\* Two records with different keys, one value needing quotes: two columns
\* in ascending order and an empty cell in each row.
C8_Witness ==
    /\ cpc = "json_to_csv"
    /\ cstatus = "ok"
    /\ Len(json_in.items) = 2
    /\ json_in.items[1].isdict /\ json_in.items[2].isdict
    /\ DOMAIN json_in.items[1].d = {KeyB}
    /\ DOMAIN json_in.items[2].d = {KeyAB}
    /\ json_in.items[1].d[KeyB] = JStr(<<COMMA, QUOTE>>)
    /\ FileRows = << <<KeyAB, KeyB>>, << <<>>, <<COMMA, QUOTE>> >>,
                     << PyStr(json_in.items[2].d[KeyAB]), <<>> >> >>

\* C9: json_to_csv then csv_to_json on a non-empty list of objects gives
\* as many records in the same order, each key of a record mapping to the
\* text of its value.
C9_RoundTrip ==
    (cpc = "csv_to_json" /\ cstatus = "ok" /\ ListOfObjects) =>
       /\ json_out # None
       /\ Len(json_out[1]) = Len(json_in.items)
       /\ \A i \in 1..Len(json_in.items) :
             \A k \in DOMAIN json_in.items[i].d :
                /\ k \in DOMAIN json_out[1][i].d
                /\ json_out[1][i].d[k] = JStr(PyStr(json_in.items[i].d[k]))

====
